---------------------------- MODULE Spec2Model ----------------------------
(***************************************************************************)
(* Model of src/bot.py: the JSON record store (USERS_PATH and its .tmp     *)
(* staging file), the per-user purchase ledger derived from it, and the    *)
(* chat handlers that read and patch it.                                   *)
(*                                                                         *)
(* A user record is the JSON object stored under str(uid).  Its keys are   *)
(* modelled by the fields of EmptyRec; the *_ts / ts keys hold the wall    *)
(* clock second of the write, are read by no code path and are left out.   *)
(* Values the handlers never write but a hand-edited file may hold (a      *)
(* record or an entry that is not an object, a status string the code does *)
(* not know) are carried by the tags "junk", "nostatus" and "other".       *)
(***************************************************************************)
EXTENDS Integers, Sequences, FiniteSets, TLC

VARIABLES
    file,       \* content of the file at USERS_PATH
    tmpf,       \* content of the staging file USERS_PATH + ".tmp"
    ADMIN_ID,   \* the configured operator id (its text), <<>> when not configured
    ev,         \* the last handled update: its inputs, its reply, its sends
    nev,        \* number of updates handled so far
    approvals,  \* history: keys an authorized /approve has been executed for
    scen,       \* history: progress of each user through paid, deny, paid on BASIC
    proc,       \* per process: position inside a store call, and its locals
    conc        \* history of SpecConc: overlapping writes, crashes, published calls

vars == <<file, tmpf, ADMIN_ID, ev, nev, approvals, scen, proc, conc>>

-----------------------------------------------------------------------------
(* Bounds *)

MaxEvents == 3      \* updates handled in one behaviour of Spec
MaxCalls == 3       \* store calls begun in one behaviour of SpecConc
MaxFaultEvents == 1 \* updates handled in one behaviour of SpecFault

-----------------------------------------------------------------------------
(* Configuration data *)

Plans == {"BASIC", "PRO", "VIP"}

\* the plans of user_has_access without the last one
AccessOrder_short == <<"BASIC", "PRO">>

AccessOrder == <<"BASIC", "PRO", "VIP">>

\* the plans of get_approved_plan without the last one
ApprovedOrder_noBasic == <<"VIP", "PRO">>

\* the plans of get_approved_plan in the order of PRICES
ApprovedOrder_asListed == <<"BASIC", "PRO", "VIP">>

ApprovedOrder == <<"VIP", "PRO", "BASIC">>

SUPPORTED_LANGS == {"ru", "tj"}

DEFAULT_LANG == "ru"

Uids == {1, 2}

\* ADMIN_ID values: not set, or the decimal text of an id
AdminIds == {<<>>, <<"1">>}

-----------------------------------------------------------------------------
(* Conversions between user ids and their decimal text *)

Digits == <<"0", "1", "2", "3", "4", "5", "6", "7", "8", "9">>

DigitVal(c) == CHOOSE d \in 0..9 : Digits[d + 1] = c

IsDigit(c) == \E d \in 0..9 : Digits[d + 1] = c

RECURSIVE Str(_)
Str(n) == IF n < 10 THEN <<Digits[n + 1]>>
          ELSE Append(Str(n \div 10), Digits[(n % 10) + 1])

RECURSIVE DecVal(_)
DecVal(s) == IF s = <<>> THEN 0
             ELSE 10 * DecVal(SubSeq(s, 1, Len(s) - 1)) + DigitVal(s[Len(s)])

\* int(uid_str): the value, or -1 for the ValueError of a non-numeric text
ParseInt(s) == IF s # <<>> /\ \A i \in 1..Len(s) : IsDigit(s[i])
               THEN DecVal(s) ELSE -1

\* str.upper() on the plan texts the model feeds in
Upper(s) == CASE s = "basic" -> "BASIC"
              [] s = "pro" -> "PRO"
              [] s = "vip" -> "VIP"
              [] s = "gold" -> "GOLD"
              [] OTHER -> s

\* str.strip().lower() on the locale texts the model feeds in
StripLower(s) == CASE s = "RU" -> "ru"
                   [] s = " tj" -> "tj"
                   [] s = "TJ" -> "tj"
                   [] s = "EN" -> "en"
                   [] OTHER -> s

-----------------------------------------------------------------------------
(* JSON values *)

NoEntries == [p \in Plans |-> "absent"]

NoPurchases == [tag |-> "absent", ent |-> NoEntries]

\* {} : the record get_user returns for an unknown id
EmptyRec == [kind |-> "dict", purchases |-> NoPurchases, lang |-> "absent",
             sel |-> "absent", name |-> FALSE, msg |-> FALSE]

Fields == {"purchases", "lang", "sel", "name", "msg"}

EmptyMap == [k \in {} |-> EmptyRec]

Missing == [st |-> "missing", data |-> EmptyMap]

Object(d) == [st |-> "object", data |-> d]

-----------------------------------------------------------------------------
(* STORAGE (safe JSON) *)

\* the read that goes on to parse the file after open() or read() raised
_safe_read_json_deaf(f, fault) ==
    IF f.st = "object" THEN f.data ELSE EmptyMap

\* fault: open() or read() raised; the except branch returns {}
_safe_read_json(f, fault) ==
    IF fault THEN EmptyMap
    ELSE IF f.st = "object" THEN f.data
    ELSE EmptyMap

\* a read that creates the file it did not find
AfterRead_create(f) == IF f.st = "missing" THEN Object(EmptyMap) ELSE f

\* the file at USERS_PATH after _safe_read_json: os.path.exists and
\* open(path, "r") leave it as it is
AfterRead(f) == f

\* The four file-system steps of _safe_write_json as functions of the two
\* files.  Each returns the pair of files after the step.
OpenTmp(f, t) == [file |-> f, tmpf |-> [st |-> "empty", data |-> EmptyMap]]

\* the dump written straight into the file at USERS_PATH
DumpPart_inplace(f, t, d) == [file |-> [st |-> "malformed", data |-> EmptyMap], tmpf |-> t]

DumpPart(f, t, d) == [file |-> f, tmpf |-> [st |-> "malformed", data |-> EmptyMap]]

DumpRest(f, t, d) == [file |-> f, tmpf |-> Object(d)]

Replace(f, t) == [file |-> t, tmpf |-> Missing]

\* the write whose os.replace raises after the file was moved
_safe_write_json_late(f, t, d, failAt) ==
    LET s1 == OpenTmp(f, t)
        s2 == DumpPart(s1.file, s1.tmpf, d)
        s3 == DumpRest(s2.file, s2.tmpf, d)
        s4 == Replace(s3.file, s3.tmpf)
    IN CASE failAt = 1 -> [file |-> f, tmpf |-> t]
         [] failAt = 2 -> s2
         [] OTHER -> s4

\* failAt: 0 no failure; 1 makedirs/open raised; 2 json.dump raised part way;
\* 3 os.replace raised.  The except branch logs and returns.
_safe_write_json(f, t, d, failAt) ==
    LET s1 == OpenTmp(f, t)
        s2 == DumpPart(s1.file, s1.tmpf, d)
        s3 == DumpRest(s2.file, s2.tmpf, d)
        s4 == Replace(s3.file, s3.tmpf)
    IN CASE failAt = 1 -> [file |-> f, tmpf |-> t]
         [] failAt = 2 -> s2
         [] failAt = 3 -> s3
         [] OTHER -> s4

get_user(users, key) ==
    LET u == IF key \in DOMAIN users THEN users[key] ELSE EmptyRec
    IN IF u.kind = "dict" THEN u ELSE EmptyRec

\* the patch laid over an empty record instead of the stored one
Merged_fresh(users, key, patch) ==
    [k \in Fields \cup {"kind"} |->
        IF k \in DOMAIN patch THEN patch[k] ELSE EmptyRec[k]]

\* cur.update(patch); users[key] = cur
Merged(users, key, patch) ==
    LET c0 == IF key \in DOMAIN users THEN users[key] ELSE EmptyRec
        cur == IF c0.kind = "dict" THEN c0 ELSE EmptyRec
    IN [k \in Fields \cup {"kind"} |->
            IF k \in DOMAIN patch THEN patch[k] ELSE cur[k]]

\* a mapping of the one record instead of users with the record put in
Put_alone(users, key, rec) == [k \in {key} |-> rec]

Put(users, key, rec) ==
    [k \in DOMAIN users \cup {key} |-> IF k = key THEN rec ELSE users[k]]

\* io = [r1, r2: read faults, w: failAt]; returns the two files after the call
upsert_user(f, t, key, patch, io) ==
    LET users == _safe_read_json(f, io.r2)
    IN _safe_write_json(f, t, Put(users, key, Merged(users, key, patch)), io.w)

\* purchases[plan] = status: a string where the entry object belongs
WithStatus_bare(u, plan, status) ==
    LET old == IF u.purchases.tag = "dict" THEN u.purchases.ent ELSE NoEntries
    IN [tag |-> "dict", ent |-> [old EXCEPT ![plan] = "junk"]]

\* the entry removed when it already holds the status
WithStatus_toggle(u, plan, status) ==
    LET old == IF u.purchases.tag = "dict" THEN u.purchases.ent ELSE NoEntries
    IN [tag |-> "dict",
        ent |-> [old EXCEPT ![plan] = IF old[plan] = status THEN "absent" ELSE status]]

\* the status set only over none or requested
WithStatus_guarded(u, plan, status) ==
    LET old == IF u.purchases.tag = "dict" THEN u.purchases.ent ELSE NoEntries
    IN [tag |-> "dict",
        ent |-> IF old[plan] \in {"approved", "denied"} THEN old
                ELSE [old EXCEPT ![plan] = status]]

\* a fresh purchases mapping instead of the stored one
WithStatus_fresh(u, plan, status) ==
    [tag |-> "dict", ent |-> [NoEntries EXCEPT ![plan] = status]]

\* purchases[plan] = {"status": status, ...} on the purchases of get_user(uid)
WithStatus(u, plan, status) ==
    LET old == IF u.purchases.tag = "dict" THEN u.purchases.ent ELSE NoEntries
    IN [tag |-> "dict", ent |-> [old EXCEPT ![plan] = status]]

set_purchase_status(f, t, key, plan, status, io) ==
    LET u == get_user(_safe_read_json(f, io.r1), key)
    IN upsert_user(f, t, key,
                   [purchases |-> WithStatus(u, plan, status)], io)

get_purchase_status(users, key, plan) ==
    LET u == get_user(users, key)
    IN IF u.purchases.tag # "dict" THEN "none"
       ELSE IF u.purchases.ent[plan] \in {"absent", "junk", "nostatus"} THEN "none"
       ELSE u.purchases.ent[plan]

\* a requested entry taken for an approved one
Approved_pending(u, plan) == u.purchases.ent[plan] \in {"approved", "requested"}

Approved(u, plan) == u.purchases.ent[plan] = "approved"

user_has_access(users, key) ==
    LET u == get_user(users, key)
    IN IF u.purchases.tag # "dict" THEN FALSE
       ELSE \E i \in 1..Len(AccessOrder) : Approved(u, AccessOrder[i])

\* the first plan of ApprovedOrder that is approved, or "none"
get_approved_plan(users, key) ==
    LET u == get_user(users, key)
        hits == {i \in 1..Len(ApprovedOrder) : Approved(u, ApprovedOrder[i])}
    IN IF u.purchases.tag # "dict" THEN "none"
       ELSE IF hits = {} THEN "none"
       ELSE ApprovedOrder[CHOOSE i \in hits : \A j \in hits : i <= j]

\* a stored lang that is not a string: "null" for a falsy value, which the
\* "or" replaces by "", "number" for a truthy one, on which .strip() raises
get_lang(users, key) ==
    LET u == get_user(users, key)
        lang == IF u.lang \in {"absent", "null"} THEN "" ELSE StripLower(u.lang)
    IN IF u.lang = "number" THEN "raise"
       ELSE IF lang \in SUPPORTED_LANGS THEN lang ELSE DEFAULT_LANG

\* set_lang storing the value as given
set_lang_raw(f, t, key, lang, io) == upsert_user(f, t, key, [lang |-> lang], io)

set_lang(f, t, key, lang, io) ==
    LET l == StripLower(lang)
    IN upsert_user(f, t, key,
                   [lang |-> IF l \in SUPPORTED_LANGS THEN l ELSE DEFAULT_LANG], io)

\* is_admin without the comparison of the ids
is_admin_open(uid, admin) == TRUE

\* is_admin without the open mode
is_admin_closed(uid, admin) == Str(uid) = admin

is_admin(uid, admin) == IF admin = <<>> THEN TRUE ELSE Str(uid) = admin

\* the plan check without the membership test
ValidPlan_any(plan) == TRUE

\* plan in PRICES
ValidPlan(plan) == plan \in Plans

-----------------------------------------------------------------------------
(* Inputs of the handlers *)

\* 0 stands for an update without effective_user; a message or a button
\* press always names its sender, so only an ignored update has it
NoUser == 0

Callers == Uids

UidArgs == {<<"1">>, <<"0", "2">>, <<"x">>}

PlanArgs == {"BASIC", "pro", "VIP", "GOLD"}

\* the plans of the inline buttons, and one the bot never offered
ButtonPlans == {"BASIC", "PRO", "VIP", "GOLD"}

\* context.args of /approve and /deny: none, one or two words; every plan
\* text with the id "1", two with "02", one with the non-numeric id
NoArgs == [n |-> 0, uid |-> <<>>, plan |-> ""]

ArgLists == {NoArgs, [n |-> 1, uid |-> <<"1">>, plan |-> ""]}
            \cup {a \in [n : {2}, uid : UidArgs, plan : PlanArgs] :
                     \/ a.uid = <<"1">>
                     \/ a.plan = "BASIC"
                     \/ a.uid = <<"0", "2">> /\ a.plan = "pro"}

LangArgs == {"ru", "tj", "xx"}

\* callback_query.data, split at its first ":"
CallbackData == {[kind |-> "lang", val |-> l] : l \in LangArgs}
                \cup {[kind |-> "paid", val |-> p] : p \in ButtonPlans}
                \cup {[kind |-> "plan", val |-> p] : p \in {"PRO", "GOLD"}}
                \cup {[kind |-> "other", val |-> ""]}

\* message texts: the language button, the menu labels of TEXTS, anything else
MenuKeys == {"menu_courses", "menu_buy", "menu_account", "menu_support"}

Texts == {[kind |-> "langbtn", lang |-> ""], [kind |-> "other", lang |-> ""],
          [kind |-> "menu_buy", lang |-> "ru"], [kind |-> "menu_buy", lang |-> "tj"],
          [kind |-> "menu_account", lang |-> "ru"]}

\* the text after "/broadcast": empty or not
BroadcastTexts == {"", "hello"}

\* storage faults of one handler run: r1, r2 the reads of the store call,
\* r3 the reads made for the replies, w the failing step of the write
NoFault == [r1 |-> FALSE, r2 |-> FALSE, r3 |-> FALSE, w |-> 0]

Faults == [r1 : BOOLEAN, r2 : BOOLEAN, r3 : BOOLEAN, w : 0..3]

Blank == [op |-> "init", msg |-> FALSE, caller |-> NoUser, nargs |-> 0,
          uidarg |-> <<>>, planarg |-> "", text |-> "", reply |-> "none",
          dms |-> {}, undelivered |-> {}, sent |-> 0, failed |-> 0,
          io |-> NoFault, again |-> FALSE]

Same == [file |-> file, tmpf |-> tmpf]

\* notify_admin: a send to int(ADMIN_ID) when an operator id is configured
AdminDms(admin) == IF admin = <<>> \/ ParseInt(admin) < 0 THEN {}
                   ELSE {ParseInt(admin)}

-----------------------------------------------------------------------------
(* HANDLERS: each returns the files and the event record of one run *)

start_run(msg, caller, io) ==
    IF ~msg \/ caller = NoUser
    THEN [files |-> Same, ev |-> [Blank EXCEPT !.op = "start"]]
    ELSE [files |-> upsert_user(file, tmpf, Str(caller),
                                [name |-> TRUE], io),
          ev |-> [Blank EXCEPT !.op = "start", !.msg = TRUE, !.caller = caller,
                               !.reply = "welcome", !.dms = AdminDms(ADMIN_ID),
                               !.io = io]]

help_run(msg, caller) ==
    IF ~msg THEN [files |-> Same, ev |-> [Blank EXCEPT !.op = "help"]]
    ELSE [files |-> Same,
          ev |-> [Blank EXCEPT !.op = "help", !.msg = TRUE, !.caller = caller,
                               !.reply = "help"]]

\* the message to the user sent first, its failure ending the handler
\* before set_purchase_status
admin_set_run_notify_first(op, status, okreply, msg, caller, args, down, io) ==
    LET e0 == [Blank EXCEPT !.op = op, !.msg = TRUE, !.caller = caller]
        e1 == [e0 EXCEPT !.nargs = args.n]
        e2 == [e1 EXCEPT !.planarg = args.plan]
        e3 == [e2 EXCEPT !.uidarg = args.uid]
        uid == ParseInt(args.uid)
    IN IF ~msg THEN [files |-> Same, ev |-> [Blank EXCEPT !.op = op]]
       ELSE IF caller = NoUser \/ ~is_admin(caller, ADMIN_ID)
       THEN [files |-> Same, ev |-> [e0 EXCEPT !.reply = "noaccess"]]
       ELSE IF args.n < 2
       THEN [files |-> Same, ev |-> [e1 EXCEPT !.reply = "usage"]]
       ELSE IF ~ValidPlan(Upper(args.plan))
       THEN [files |-> Same, ev |-> [e2 EXCEPT !.reply = "badplan"]]
       ELSE IF uid < 0
       THEN [files |-> Same, ev |-> [e3 EXCEPT !.reply = "baduid"]]
       ELSE [files |-> IF uid \in down THEN Same
                       ELSE set_purchase_status(file, tmpf, Str(uid),
                                                Upper(args.plan), status, io),
             ev |-> [e3 EXCEPT !.reply = okreply, !.dms = {uid},
                               !.undelivered = {uid} \cap down, !.io = io]]

\* cmd_approve and cmd_deny: the same checks, then set_purchase_status, the
\* reply to the operator, and the message to the user inside try/except;
\* down: the users a send_message to whom raises
admin_set_run(op, status, okreply, msg, caller, args, down, io) ==
    LET e0 == [Blank EXCEPT !.op = op, !.msg = TRUE, !.caller = caller]
        e1 == [e0 EXCEPT !.nargs = args.n]
        e2 == [e1 EXCEPT !.planarg = args.plan]
        e3 == [e2 EXCEPT !.uidarg = args.uid]
        uid == ParseInt(args.uid)
    IN IF ~msg THEN [files |-> Same, ev |-> [Blank EXCEPT !.op = op]]
       ELSE IF caller = NoUser \/ ~is_admin(caller, ADMIN_ID)
       THEN [files |-> Same, ev |-> [e0 EXCEPT !.reply = "noaccess"]]
       ELSE IF args.n < 2
       THEN [files |-> Same, ev |-> [e1 EXCEPT !.reply = "usage"]]
       ELSE IF ~ValidPlan(Upper(args.plan))
       THEN [files |-> Same, ev |-> [e2 EXCEPT !.reply = "badplan"]]
       ELSE IF uid < 0
       THEN [files |-> Same, ev |-> [e3 EXCEPT !.reply = "baduid"]]
       ELSE [files |-> set_purchase_status(file, tmpf, Str(uid),
                                           Upper(args.plan), status, io),
             ev |-> [e3 EXCEPT !.reply = okreply, !.dms = {uid},
                               !.undelivered = {uid} \cap down, !.io = io]]

approve_run(msg, caller, args, down, io) ==
    admin_set_run("approve", "approved", "approved", msg, caller, args, down, io)

\* cmd_deny writing the status of cmd_approve
deny_run_approving(msg, caller, args, down, io) ==
    admin_set_run("deny", "approved", "denied", msg, caller, args, down, io)

deny_run(msg, caller, args, down, io) ==
    admin_set_run("deny", "denied", "denied", msg, caller, args, down, io)

\* a send whose failure the loop does not notice
Reachable_always(key, down) == ParseInt(key) >= 0

\* int(uid_str) of a stored key; the keys the handlers write are decimal
Reachable(key, down) == ParseInt(key) >= 0 /\ ParseInt(key) \notin down

broadcast_run(msg, caller, text, down, io) ==
    LET e0 == [Blank EXCEPT !.op = "broadcast", !.msg = TRUE, !.caller = caller]
        users == _safe_read_json(file, io.r1)
        good == {k \in DOMAIN users : Reachable(k, down)}
    IN IF ~msg THEN [files |-> Same, ev |-> [Blank EXCEPT !.op = "broadcast"]]
       ELSE IF caller = NoUser \/ ~is_admin(caller, ADMIN_ID)
       THEN [files |-> Same, ev |-> [e0 EXCEPT !.reply = "noaccess"]]
       ELSE IF text = ""
       THEN [files |-> Same, ev |-> [e0 EXCEPT !.reply = "usage"]]
       ELSE [files |-> Same,
             ev |-> [e0 EXCEPT !.text = text, !.reply = "broadcast",
                               !.dms = {ParseInt(k) : k \in
                                           {x \in DOMAIN users : ParseInt(x) >= 0}},
                               !.undelivered =
                                   {ParseInt(k) : k \in DOMAIN users} \cap down,
                               !.sent = Cardinality(good),
                               !.failed = Cardinality(DOMAIN users \ good),
                               !.io = io]]

text_run(msg, caller, text, io) ==
    LET key == Str(caller)
        files == upsert_user(file, tmpf, key, [name |-> TRUE, msg |-> TRUE], io)
        users == _safe_read_json(files.file, io.r3)
        lang == get_lang(users, key)
        e0 == [Blank EXCEPT !.op = "text", !.msg = TRUE, !.caller = caller,
                            !.text = text.kind, !.io = io]
    IN IF ~msg \/ caller = NoUser
       THEN [files |-> Same, ev |-> [Blank EXCEPT !.op = "text"]]
       ELSE IF text.kind = "langbtn"
       THEN [files |-> files, ev |-> [e0 EXCEPT !.reply = "choose_lang"]]
       ELSE IF text.kind \in MenuKeys /\ text.lang = lang
       THEN [files |-> files,
             ev |-> [e0 EXCEPT !.reply = text.kind,
                               !.dms = IF text.kind = "menu_buy"
                                       THEN AdminDms(ADMIN_ID) ELSE {}]]
       ELSE IF ~user_has_access(users, key)
       THEN [files |-> files, ev |-> [e0 EXCEPT !.reply = "no_access"]]
       ELSE [files |-> files, ev |-> [e0 EXCEPT !.reply = "access_active"]]

\* the plan branch writing the request of the paid branch
callback_run_requesting(query, caller, data, io) ==
    LET key == Str(caller)
        e0 == [Blank EXCEPT !.op = data.kind, !.msg = TRUE, !.caller = caller,
                            !.io = io]
        plan == Upper(data.val)
    IN IF ~query \/ caller = NoUser
       THEN [files |-> Same, ev |-> [Blank EXCEPT !.op = "callback"]]
       ELSE IF data.kind = "lang"
       THEN [files |-> set_lang(file, tmpf, key, data.val, io),
             ev |-> [e0 EXCEPT !.text = data.val, !.dms = {caller},
                               !.reply = IF StripLower(data.val) = "tj"
                                         THEN "lang_set_tj" ELSE "lang_set_ru"]]
       ELSE IF data.kind \in {"plan", "paid"} /\ ~ValidPlan(plan)
       THEN [files |-> Same,
             ev |-> [e0 EXCEPT !.planarg = data.val, !.reply = "badplan",
                               !.io = NoFault]]
       ELSE IF data.kind = "plan"
       THEN [files |-> set_purchase_status(file, tmpf, key, plan, "requested", io),
             ev |-> [e0 EXCEPT !.planarg = data.val, !.reply = "plan_details",
                               !.dms = AdminDms(ADMIN_ID)]]
       ELSE IF data.kind = "paid"
       THEN [files |-> set_purchase_status(file, tmpf, key, plan, "requested", io),
             ev |-> [e0 EXCEPT !.planarg = data.val, !.reply = "request_sent",
                               !.dms = AdminDms(ADMIN_ID)]]
       ELSE [files |-> Same, ev |-> [Blank EXCEPT !.op = "callback", !.msg = TRUE]]

callback_run(query, caller, data, io) ==
    LET key == Str(caller)
        e0 == [Blank EXCEPT !.op = data.kind, !.msg = TRUE, !.caller = caller,
                            !.io = io]
        plan == Upper(data.val)
    IN IF ~query \/ caller = NoUser
       THEN [files |-> Same, ev |-> [Blank EXCEPT !.op = "callback"]]
       ELSE IF data.kind = "lang"
       THEN [files |-> set_lang(file, tmpf, key, data.val, io),
             ev |-> [e0 EXCEPT !.text = data.val, !.dms = {caller},
                               !.reply = IF StripLower(data.val) = "tj"
                                         THEN "lang_set_tj" ELSE "lang_set_ru"]]
       ELSE IF data.kind \in {"plan", "paid"} /\ ~ValidPlan(plan)
       THEN [files |-> Same,
             ev |-> [e0 EXCEPT !.planarg = data.val, !.reply = "badplan",
                               !.io = NoFault]]
       ELSE IF data.kind = "plan"
       THEN [files |-> upsert_user(file, tmpf, key, [sel |-> plan], io),
             ev |-> [e0 EXCEPT !.planarg = data.val, !.reply = "plan_details",
                               !.dms = AdminDms(ADMIN_ID)]]
       ELSE IF data.kind = "paid"
       THEN [files |-> set_purchase_status(file, tmpf, key, plan, "requested", io),
             ev |-> [e0 EXCEPT !.planarg = data.val, !.reply = "request_sent",
                               !.dms = AdminDms(ADMIN_ID)]]
       ELSE [files |-> Same, ev |-> [Blank EXCEPT !.op = "callback", !.msg = TRUE]]

-----------------------------------------------------------------------------
(* History variables: what has been executed, as seen from the inputs *)

\* the caller is the configured operator, or no operator is configured
Authorized(caller) ==
    caller # NoUser /\ (ADMIN_ID = <<>> \/ <<Digits[caller + 1]>> = ADMIN_ID)

\* an /approve or /deny that names a plan and a numeric id
WellFormed(e) ==
    /\ e.nargs >= 2
    /\ Upper(e.planarg) \in Plans
    /\ ParseInt(e.uidarg) >= 0

Executed(e, op) == e.op = op /\ e.msg /\ Authorized(e.caller) /\ WellFormed(e)

Paid(e, plan) == e.op = "paid" /\ e.msg /\ e.caller # NoUser /\ Upper(e.planarg) = plan

\* b is the trigger a once more: the same "I paid", /approve or /deny on
\* the same user and plan
SameTrigger(a, b) ==
    \/ \E p \in Plans : Paid(a, p) /\ Paid(b, p) /\ a.caller = b.caller
    \/ \E op \in {"approve", "deny"} :
          /\ Executed(a, op) /\ Executed(b, op)
          /\ ParseInt(a.uidarg) = ParseInt(b.uidarg)
          /\ Upper(a.planarg) = Upper(b.planarg)

NextApprovals(e) ==
    IF Executed(e, "approve") THEN approvals \cup {Str(ParseInt(e.uidarg))}
    ELSE approvals

\* scen[u]: 0 no purchase event yet; 1 after "I paid" for BASIC; 2 after the
\* deny of BASIC that follows; 3 after the second "I paid"; -1 off the scenario
NextScen(e) ==
    [u \in Uids |->
        LET paidBasic == Paid(e, "BASIC") /\ e.caller = u
            paidOther == e.op = "paid" /\ e.caller = u /\ ~paidBasic
                         /\ Upper(e.planarg) \in Plans
            onU == WellFormed(e) /\ ParseInt(e.uidarg) = u
            denyBasic == Executed(e, "deny") /\ onU /\ Upper(e.planarg) = "BASIC"
            otherSet == e.op \in {"approve", "deny"} /\ e.nargs >= 2 /\ onU
                        /\ ~denyBasic
        IN IF paidOther \/ otherSet THEN -1
           ELSE IF paidBasic THEN (IF scen[u] \in {0, 2} THEN scen[u] + 1 ELSE -1)
           ELSE IF denyBasic THEN (IF scen[u] = 1 THEN 2 ELSE -1)
           ELSE scen[u]]

-----------------------------------------------------------------------------
(* The bot: one update handled at a time *)

InitFiles == {Missing,
              [st |-> "empty", data |-> EmptyMap],
              [st |-> "malformed", data |-> EmptyMap],
              [st |-> "nonobject", data |-> EmptyMap],
              Object(EmptyMap)}

Procs == {1, 2}

NoCall == [fn |-> "none", key |-> <<>>, plan |-> "BASIC", status |-> "",
           field |-> "", val |-> ""]

\* a process outside any store call
Idle == [pc |-> "idle", call |-> NoCall, purch |-> NoPurchases,
         snap |-> EmptyMap, fd |-> "none", dirty |-> FALSE, seen |-> "none"]

NoConc == [calls |-> 0, overlap |-> FALSE, crashAt |-> "none", applied |-> {}]

Init ==
    /\ file \in InitFiles
    /\ tmpf = Missing
    /\ ADMIN_ID \in AdminIds
    /\ ev = Blank
    /\ nev = 0
    /\ approvals = {}
    /\ scen = [u \in Uids |-> 0]
    /\ proc = [p \in Procs |-> Idle]
    /\ conc = NoConc

\* the effect of one handler run r
Handled(r) ==
    /\ nev < MaxEvents
    /\ nev' = nev + 1
    /\ file' = r.files.file
    /\ tmpf' = r.files.tmpf
    /\ ev' = [r.ev EXCEPT !.again = SameTrigger(ev, r.ev)]
    /\ approvals' = NextApprovals(r.ev)
    /\ scen' = NextScen(r.ev)
    /\ UNCHANGED <<ADMIN_ID, proc, conc>>

\* The updates a handler is given: one it ignores (no message, no query),
\* or a message from a caller with the handler's inputs.
Ignored == [msg |-> FALSE, caller |-> NoUser, args |-> NoArgs, text |-> "",
            txt |-> [kind |-> "other", lang |-> ""], down |-> {},
            data |-> [kind |-> "other", val |-> ""]]

From(c) == [Ignored EXCEPT !.msg = TRUE, !.caller = c]

Updates == {Ignored} \cup {From(c) : c \in Callers}

\* a failing delivery matters to a command that reaches its send_message
AdminUpdates ==
    {Ignored} \cup {u \in {[From(c) EXCEPT !.args = a, !.down = d] :
                               c \in Callers, a \in ArgLists, d \in {{}, Uids}} :
                        u.down # {} => u.args.n = 2 /\ Upper(u.args.plan) \in Plans}

BroadcastUpdates ==
    {Ignored} \cup {u \in {[From(c) EXCEPT !.text = x, !.down = d] :
                               c \in Callers, x \in BroadcastTexts, d \in SUBSET Uids} :
                        u.down # {} => u.text # ""}

TextUpdates ==
    {Ignored} \cup {[From(c) EXCEPT !.txt = x] : c \in Callers, x \in Texts}

CallbackUpdates ==
    {Ignored} \cup {[From(c) EXCEPT !.data = d] : c \in Callers, d \in CallbackData}

cmd_start(F) ==
    \E u \in Updates, io \in F : Handled(start_run(u.msg, u.caller, io))

cmd_help ==
    \E u \in Updates : Handled(help_run(u.msg, u.caller))

cmd_approve(F) ==
    \E u \in AdminUpdates, io \in F :
        Handled(approve_run(u.msg, u.caller, u.args, u.down, io))

cmd_deny(F) ==
    \E u \in AdminUpdates, io \in F :
        Handled(deny_run(u.msg, u.caller, u.args, u.down, io))

cmd_broadcast(F) ==
    \E u \in BroadcastUpdates, io \in F :
        Handled(broadcast_run(u.msg, u.caller, u.text, u.down, io))

on_text(F) ==
    \E u \in TextUpdates, io \in F :
        Handled(text_run(u.msg, u.caller, u.txt, io))

on_callback(F) ==
    \E u \in CallbackUpdates, io \in F :
        Handled(callback_run(u.msg, u.caller, u.data, io))

Next ==
    \/ cmd_start({NoFault})
    \/ cmd_help
    \/ cmd_approve({NoFault})
    \/ cmd_deny({NoFault})
    \/ cmd_broadcast({NoFault})
    \/ on_text({NoFault})
    \/ on_callback({NoFault})

Spec == Init /\ [][Next]_vars

-----------------------------------------------------------------------------
(* The derivations of access as functions of the store content: any record *)
(* a file may hold under an id, well formed or not, and the two accessors  *)
(* applied to it.                                                          *)

EntVals == {"absent", "junk", "nostatus", "requested", "approved", "denied", "other"}

RecShapes ==
    {[EmptyRec EXCEPT !.kind = k, !.purchases = [tag |-> t, ent |-> e]] :
        k \in {"dict", "junk"}, t \in {"absent", "junk", "dict"},
        e \in [Plans -> EntVals]}

StoredLangs == {"absent", "null", "number", "ru", "tj", "TJ", "xx", "EN"}

LangShapes ==
    {[EmptyRec EXCEPT !.kind = k, !.lang = l] :
        k \in {"dict", "junk"}, l \in StoredLangs}

PureFiles == InitFiles
             \cup {Object([k \in {<<"1">>} |-> r]) : r \in RecShapes \cup LangShapes}

InitPure ==
    /\ file \in PureFiles
    /\ tmpf = Missing
    /\ ADMIN_ID = <<>>
    /\ ev = Blank
    /\ nev = 0
    /\ approvals = {}
    /\ scen = [u \in Uids |-> 0]
    /\ proc = [p \in Procs |-> Idle]
    /\ conc = NoConc

Answered(op, key, plan, fault, answer) ==
    /\ ev' = [Blank EXCEPT !.op = op, !.uidarg = key, !.planarg = plan,
                           !.io = [NoFault EXCEPT !.r1 = fault], !.reply = answer]
    /\ file' = AfterRead(file)
    /\ UNCHANGED <<tmpf, ADMIN_ID, nev, approvals, scen, proc, conc>>

ask_user_has_access ==
    \E u \in Uids, fault \in {FALSE} :
        Answered("has_access", Str(u), "", fault,
                 IF user_has_access(_safe_read_json(file, fault), Str(u))
                 THEN "true" ELSE "false")

ask_get_approved_plan ==
    \E u \in Uids, fault \in {FALSE} :
        Answered("approved_plan", Str(u), "", fault,
                 get_approved_plan(_safe_read_json(file, fault), Str(u)))

ask_read ==
    \E fault \in BOOLEAN :
        Answered("read", <<>>, "", fault,
                 IF _safe_read_json(file, fault) = EmptyMap THEN "empty" ELSE "records")

ask_get_user ==
    \E u \in Uids, fault \in BOOLEAN :
        Answered("get", Str(u), "", fault,
                 IF get_user(_safe_read_json(file, fault), Str(u)) = EmptyRec
                 THEN "empty" ELSE "record")

ask_get_lang ==
    \E u \in Uids, fault \in BOOLEAN :
        Answered("get_lang", Str(u), "", fault,
                 get_lang(_safe_read_json(file, fault), Str(u)))

ask_get_purchase_status ==
    \E u \in Uids, plan \in Plans, fault \in BOOLEAN :
        Answered("get_status", Str(u), plan, fault,
                 get_purchase_status(_safe_read_json(file, fault), Str(u), plan))

NextPure ==
    \/ ask_user_has_access
    \/ ask_get_approved_plan
    \/ ask_read
    \/ ask_get_user
    \/ ask_get_lang
    \/ ask_get_purchase_status

SpecPure == InitPure /\ [][NextPure]_vars

-----------------------------------------------------------------------------
(* The store calls step by step.  Inside one process a store call runs to  *)
(* its end before the next update is handled (no await between its read    *)
(* and its write), so the steps of two calls interleave only between       *)
(* processes that share USERS_PATH.  A process may be killed at any step,  *)
(* and any file-system call of the write may raise.                        *)
(*                                                                         *)
(* Both processes stage under the one name USERS_PATH + ".tmp".  A process *)
(* writes through the descriptor it opened: fd says where that file is now *)
(* ("tmp", "path" once another process's os.replace moved it, "gone" once  *)
(* it was replaced in turn), dirty says that another process truncated or  *)
(* overwrote what this one has written so far.                             *)

StatusCalls ==
    {[NoCall EXCEPT !.fn = "status", !.key = <<"1">>, !.plan = "BASIC",
                    !.status = "requested", !.field = "purchases"],
     [NoCall EXCEPT !.fn = "status", !.key = <<"1">>, !.plan = "PRO",
                    !.status = "approved", !.field = "purchases"]}

UpsertCalls ==
    {[NoCall EXCEPT !.fn = "upsert", !.key = <<"1">>, !.field = "lang", !.val = "tj"],
     [NoCall EXCEPT !.fn = "upsert", !.key = <<"2">>, !.field = "sel", !.val = "VIP"]}

ReadCalls == {[NoCall EXCEPT !.fn = "get", !.key = <<"1">>]}

\* a store that already holds the record of user 2
Seed == [k \in {<<"2">>} |-> [EmptyRec EXCEPT !.lang = "ru"]]

ConcFiles == {Missing, Object(EmptyMap), Object(Seed)}

InitConc ==
    /\ file \in ConcFiles
    /\ tmpf = Missing
    /\ ADMIN_ID = <<>>
    /\ ev = Blank
    /\ nev = 0
    /\ approvals = {}
    /\ scen = [u \in Uids |-> 0]
    /\ proc = [p \in Procs |-> Idle]
    /\ conc = NoConc

\* the patch upsert_user is called with
PatchOf(pr) ==
    IF pr.call.fn = "status" THEN [purchases |-> pr.purch]
    ELSE [k \in {pr.call.field} |-> pr.call.val]

\* users after users[key] = cur: what the call hands to _safe_write_json
Data(pr) ==
    Put(pr.snap, pr.call.key, Merged(pr.snap, pr.call.key, PatchOf(pr)))

InWrite == {"dump", "dumping", "staged"}

\* A write step lands in the file the descriptor refers to: onTmp is the
\* step applied with the staging file under its name, onPath the step
\* applied with that file moved to USERS_PATH.
At(loc, onTmp, onPath) ==
    CASE loc = "tmp" -> onTmp
      [] loc = "path" -> [file |-> onPath.tmpf, tmpf |-> onPath.file]
      [] OTHER -> Same

\* the other processes part way through a dump on the same file lose bytes
Spoil(p, loc) ==
    [q \in Procs |->
        IF q # p /\ proc[q].fd = loc /\ proc[q].pc = "dumping"
        THEN [proc[q] EXCEPT !.dirty = TRUE] ELSE proc[q]]

ConcFrame == UNCHANGED <<ADMIN_ID, ev, nev, approvals, scen>>

\* set_purchase_status up to its call of upsert_user
step_get_user(p) ==
    /\ proc[p].pc = "idle"
    /\ conc.calls < MaxCalls
    /\ \E c \in StatusCalls :
          LET u == get_user(_safe_read_json(file, FALSE), c.key)
          IN proc' = [proc EXCEPT ![p] =
                        [@ EXCEPT !.pc = "upsert", !.call = c,
                                  !.purch = WithStatus(u, c.plan, c.status)]]
    /\ conc' = [conc EXCEPT !.calls = @ + 1]
    /\ UNCHANGED <<file, tmpf>>
    /\ ConcFrame

\* upsert_user up to its call of _safe_write_json
step_read(p) ==
    /\ \/ /\ proc[p].pc = "upsert"
          /\ proc' = [proc EXCEPT ![p] =
                        [@ EXCEPT !.pc = "open",
                                  !.snap = _safe_read_json(file, FALSE)]]
          /\ UNCHANGED conc
       \/ /\ proc[p].pc = "idle"
          /\ conc.calls < MaxCalls
          /\ \E c \in UpsertCalls :
                proc' = [proc EXCEPT ![p] =
                           [@ EXCEPT !.pc = "open", !.call = c,
                                     !.snap = _safe_read_json(file, FALSE)]]
          /\ conc' = [conc EXCEPT !.calls = @ + 1]
    /\ UNCHANGED <<file, tmpf>>
    /\ ConcFrame

\* open(tmp, "w")
step_open(p) ==
    /\ proc[p].pc = "open"
    /\ LET r == OpenTmp(file, tmpf)
       IN /\ file' = r.file
          /\ tmpf' = r.tmpf
    /\ proc' = [Spoil(p, "tmp") EXCEPT ![p] =
                  [proc[p] EXCEPT !.pc = "dump", !.fd = "tmp", !.dirty = FALSE]]
    /\ conc' = [conc EXCEPT !.overlap =
                  @ \/ \E q \in Procs \ {p} : proc[q].pc \in InWrite]
    /\ ConcFrame

\* json.dump, the first bytes
step_dump_part(p) ==
    /\ proc[p].pc = "dump"
    /\ LET d == Data(proc[p])
           r == At(proc[p].fd, DumpPart(file, tmpf, d), DumpPart(tmpf, file, d))
       IN /\ file' = r.file
          /\ tmpf' = r.tmpf
    /\ proc' = [Spoil(p, proc[p].fd) EXCEPT ![p] =
                  [proc[p] EXCEPT !.pc = "dumping"]]
    /\ UNCHANGED conc
    /\ ConcFrame

\* json.dump, the remaining bytes, and the close of the with block
step_dump_rest(p) ==
    /\ proc[p].pc = "dumping"
    /\ LET d == Data(proc[p])
           r == IF proc[p].dirty
                THEN At(proc[p].fd, DumpPart(file, tmpf, d), DumpPart(tmpf, file, d))
                ELSE At(proc[p].fd, DumpRest(file, tmpf, d), DumpRest(tmpf, file, d))
       IN /\ file' = r.file
          /\ tmpf' = r.tmpf
    /\ proc' = [proc EXCEPT ![p] =
                  [@ EXCEPT !.pc = "staged", !.fd = "none", !.dirty = FALSE]]
    /\ UNCHANGED conc
    /\ ConcFrame

\* os.replace(tmp, path)
step_replace(p) ==
    /\ proc[p].pc = "staged"
    /\ tmpf.st # "missing"
    /\ LET r == Replace(file, tmpf)
       IN /\ file' = r.file
          /\ tmpf' = r.tmpf
    /\ proc' = [q \in Procs |->
                  IF q = p
                  THEN [Idle EXCEPT !.seen = proc[p].seen]
                  ELSE [proc[q] EXCEPT !.fd =
                           CASE @ = "tmp" -> "path"
                             [] @ = "path" -> "gone"
                             [] OTHER -> @]]
    /\ conc' = [conc EXCEPT !.applied =
                  IF tmpf = Object(Data(proc[p]))
                  THEN @ \cup {proc[p].call} ELSE @]
    /\ ConcFrame

\* a file-system call of the write raised: the except branch logs, returns
step_raise(p) ==
    /\ proc[p].pc \in {"open"} \cup InWrite
    /\ proc' = [proc EXCEPT ![p] =
                  [Idle EXCEPT !.seen = proc[p].seen]]
    /\ UNCHANGED <<file, tmpf, conc>>
    /\ ConcFrame

\* the process is killed inside a store call and started again
Crash(p) ==
    /\ proc[p].pc # "idle"
    /\ proc' = [proc EXCEPT ![p] = Idle]
    /\ conc' = [conc EXCEPT !.crashAt = proc[p].pc]
    /\ UNCHANGED <<file, tmpf>>
    /\ ConcFrame

\* get_user: a read of the store that writes nothing
step_observe(p) ==
    /\ proc[p].pc = "idle"
    /\ conc.calls < MaxCalls
    /\ \E c \in ReadCalls :
          proc' = [proc EXCEPT ![p] = [@ EXCEPT !.seen = file.st]]
    /\ conc' = [conc EXCEPT !.calls = @ + 1]
    /\ UNCHANGED <<file, tmpf>>
    /\ ConcFrame

NextConc ==
    \E p \in Procs :
        \/ step_get_user(p)
        \/ step_read(p)
        \/ step_open(p)
        \/ step_dump_part(p)
        \/ step_dump_rest(p)
        \/ step_replace(p)
        \/ step_raise(p)
        \/ Crash(p)
        \/ step_observe(p)

SpecConc == InitConc /\ [][NextConc]_vars

-----------------------------------------------------------------------------
(* The bot with storage faults: in a handler run one read of the store may *)
(* raise inside _safe_read_json, or one file-system call of the write may  *)
(* raise inside _safe_write_json.  The runs start from stores the handlers *)
(* can have written.                                                       *)

\* at most one fault in a run
FaultCases ==
    {f \in Faults :
        Cardinality({x \in {"r1", "r2", "r3"} : f[x]}) + (IF f.w > 0 THEN 1 ELSE 0) <= 1}

\* the faults a handler can meet: those of the store calls it makes
ReadFaults(names) ==
    {f \in FaultCases : f.w = 0 /\ \A x \in {"r1", "r2", "r3"} \ names : ~f[x]}

PatchFaults == {f \in FaultCases : ~f.r1 /\ ~f.r3}

StatusFaults == {f \in FaultCases : ~f.r3}

TextFaults == {f \in FaultCases : ~f.r1}

\* user 1 with a language, a selected plan and a requested BASIC; user 2
Both ==
    [k \in {<<"1">>, <<"2">>} |->
        IF k = <<"1">>
        THEN [EmptyRec EXCEPT !.lang = "tj", !.sel = "PRO", !.name = TRUE,
                              !.purchases = WithStatus(EmptyRec, "BASIC", "requested")]
        ELSE [EmptyRec EXCEPT !.lang = "ru", !.name = TRUE]]

FaultFiles == InitFiles \cup {Object(Seed), Object(Both)}

InitFault ==
    /\ file \in FaultFiles
    /\ tmpf = Missing
    /\ ADMIN_ID \in AdminIds
    /\ ev = Blank
    /\ nev = 0
    /\ approvals = {}
    /\ scen = [u \in Uids |-> 0]
    /\ proc = [p \in Procs |-> Idle]
    /\ conc = NoConc

InBound == nev < MaxFaultEvents

NextFault ==
    \/ InBound /\ cmd_start(PatchFaults)
    \/ InBound /\ cmd_help
    \/ InBound /\ cmd_approve(StatusFaults)
    \/ InBound /\ cmd_deny(StatusFaults)
    \/ InBound /\ cmd_broadcast(ReadFaults({"r1"}))
    \/ InBound /\ on_text(TextFaults)
    \/ InBound /\ on_callback(StatusFaults)

SpecFault == InitFault /\ [][NextFault]_vars

\* One bot process, as deployed: its store calls one after another, each
\* open to a kill or a raised error at any step, and a second process that
\* only reads the file.
Bot == 1

Reader == 2

NextCrash ==
    \/ step_get_user(Bot)
    \/ step_read(Bot)
    \/ step_open(Bot)
    \/ step_dump_part(Bot)
    \/ step_dump_rest(Bot)
    \/ step_replace(Bot)
    \/ step_raise(Bot)
    \/ Crash(Bot)
    \/ step_observe(Reader)

SpecCrash == InitConc /\ [][NextCrash]_vars

-----------------------------------------------------------------------------
(* What the claims speak of *)

Users == _safe_read_json(file, FALSE)

UsersAfter == _safe_read_json(file', FALSE)

Keys == {Str(u) : u \in Uids}

Status(k, p) == get_purchase_status(Users, k, p)

StatusAfter(k, p) == get_purchase_status(UsersAfter, k, p)

TargetKey(e) == Str(ParseInt(e.uidarg))

Rank(p) == CASE p = "VIP" -> 3 [] p = "PRO" -> 2 [] p = "BASIC" -> 1 [] OTHER -> 0

UserOps == {"start", "help", "text", "lang", "plan", "paid", "callback"}

-----------------------------------------------------------------------------
(* C1: a user has access only if an authorized /approve for that user was  *)
(* executed earlier, and no user-initiated event (/start, /help, a text,   *)
(* a language choice, a plan selection, "I paid") makes any status         *)
(* approved.                                                               *)

C1_NoNewApprovedByUser ==
    ev'.op \in UserOps =>
        \A k \in Keys, p \in Plans :
            StatusAfter(k, p) = "approved" => Status(k, p) = "approved"

C1_AccessOnlyByApproval ==
    /\ [](\A k \in Keys : user_has_access(Users, k) => k \in approvals)
    /\ [][C1_NoNewApprovedByUser]_vars

C1_Witness ==
    /\ ev.op = "paid"
    /\ \E k \in Keys : user_has_access(Users, k) /\ k \in approvals

-----------------------------------------------------------------------------
(* C2 as written: every change of a status follows one of the edges        *)
(* none->requested, requested->approved, requested->denied,                *)
(* denied->requested, approved->requested.                                 *)

ListedEdges == {<<"none", "requested">>, <<"requested", "approved">>,
                <<"requested", "denied">>, <<"denied", "requested">>,
                <<"approved", "requested">>}

C2_OnlyListedEdges ==
    [][\A k \in Keys, p \in Plans :
          StatusAfter(k, p) # Status(k, p) =>
              <<Status(k, p), StatusAfter(k, p)>> \in ListedEdges]_vars

(* C2 amended: a status changes only by its trigger, to the status of the  *)
(* trigger and whatever it was before: to requested by "I paid" of u for   *)
(* P, to approved by an authorized approve(u, P), to denied by an          *)
(* authorized deny(u, P).  So none->approved, none->denied,                *)
(* approved->denied and denied->approved occur besides the listed edges,   *)
(* and no status returns to none.                                          *)

C2_ChangeByTrigger(k, p) ==
    \/ /\ StatusAfter(k, p) = "requested"
       /\ Paid(ev', p)
       /\ Str(ev'.caller) = k
    \/ /\ StatusAfter(k, p) = "approved"
       /\ Executed(ev', "approve")
       /\ TargetKey(ev') = k /\ Upper(ev'.planarg) = p
    \/ /\ StatusAfter(k, p) = "denied"
       /\ Executed(ev', "deny")
       /\ TargetKey(ev') = k /\ Upper(ev'.planarg) = p

C2_ForcedEdges ==
    [][\A k \in Keys, p \in Plans :
          StatusAfter(k, p) # Status(k, p) => C2_ChangeByTrigger(k, p)]_vars

\* an approve as the first event: the status went from none to approved
C2_Witness ==
    /\ nev = 1
    /\ Executed(ev, "approve")
    /\ Status(TargetKey(ev), Upper(ev.planarg)) = "approved"

-----------------------------------------------------------------------------
(* C3: has_access(u) is true exactly when the stored record of u is an     *)
(* object whose purchases is an object holding, for some plan, an entry    *)
(* object with status approved; it is false for an absent or malformed     *)
(* record, purchases or entry, and for an unreadable store.                *)

StoredApproved(k) ==
    {p \in Plans :
        /\ file.st = "object"
        /\ k \in DOMAIN file.data
        /\ file.data[k].kind = "dict"
        /\ file.data[k].purchases.tag = "dict"
        /\ file.data[k].purchases.ent[p] = "approved"}

C3_AccessIffApprovedEntry ==
    ev.op = "has_access" =>
        (ev.reply = "true" <=> StoredApproved(ev.uidarg) # {})

\* access by VIP alone, beside a malformed entry
C3_Witness ==
    /\ ev.op = "has_access"
    /\ ev.reply = "true"
    /\ StoredApproved(ev.uidarg) = {"VIP"}
    /\ file.data[ev.uidarg].purchases.ent["BASIC"] = "junk"

-----------------------------------------------------------------------------
(* C4: approved_plan(u) is the approved plan highest in VIP > PRO > BASIC, *)
(* and none when no plan is approved.                                      *)

C4_HighestApprovedPlan ==
    ev.op = "approved_plan" =>
        LET A == StoredApproved(ev.uidarg)
        IN IF A = {} THEN ev.reply = "none"
           ELSE /\ ev.reply \in A
                /\ \A q \in A : Rank(q) <= Rank(ev.reply)

\* PRO approved and VIP denied gives PRO, also with BASIC approved
C4_Witness ==
    /\ ev.op = "approved_plan"
    /\ ev.reply = "PRO"
    /\ StoredApproved(ev.uidarg) = {"BASIC", "PRO"}
    /\ file.data[ev.uidarg].purchases.ent["VIP"] = "denied"

-----------------------------------------------------------------------------
(* C5: after an executed approve(u, P), approved_plan(u) is P or an        *)
(* approved plan of higher precedence; after an executed deny(u, P),       *)
(* has_access(u) holds exactly when a plan other than P was approved.      *)

C5_AfterApprove ==
    Executed(ev', "approve") =>
        LET k == TargetKey(ev')
            r == get_approved_plan(UsersAfter, k)
        IN /\ r \in Plans
           /\ Rank(r) >= Rank(Upper(ev'.planarg))
           /\ StatusAfter(k, r) = "approved"

C5_AfterDeny ==
    Executed(ev', "deny") =>
        LET k == TargetKey(ev')
        IN user_has_access(UsersAfter, k) <=>
               \E q \in Plans \ {Upper(ev'.planarg)} : Status(k, q) = "approved"

C5_TransitionCorrect == [][C5_AfterApprove /\ C5_AfterDeny]_vars

\* a deny of one plan of a user who keeps access by another plan
C5_Witness ==
    /\ Executed(ev, "deny")
    /\ user_has_access(Users, TargetKey(ev))

-----------------------------------------------------------------------------
(* C6: from no purchases, "I paid" for BASIC, deny of BASIC, "I paid" for  *)
(* BASIC again: the status is requested, denied, requested in turn, and    *)
(* the user has no access in any state of the run.                         *)

C6_ReRequestAfterDenial ==
    \A u \in Uids :
        scen[u] \in {1, 2, 3} =>
            /\ ~user_has_access(Users, Str(u))
            /\ Status(Str(u), "BASIC") = (IF scen[u] = 2 THEN "denied" ELSE "requested")

C6_Witness == \E u \in Uids : scen[u] = 3

-----------------------------------------------------------------------------
(* C7: /approve, /deny and /broadcast take effect exactly when the caller  *)
(* is the configured operator or no operator is configured; a caller who   *)
(* is not the configured operator changes nothing in the store, causes no  *)
(* send to anyone and gets the denial reply.                               *)

AdminOps == {"approve", "deny", "broadcast"}

C7_Refused ==
    /\ file' = file
    /\ tmpf' = tmpf
    /\ ev'.dms = {}
    /\ ev'.reply = "noaccess"

C7_Effect ==
    /\ ev'.reply # "noaccess"
    /\ Executed(ev', "approve") =>
           /\ StatusAfter(TargetKey(ev'), Upper(ev'.planarg)) = "approved"
           /\ ev'.dms = {ParseInt(ev'.uidarg)}
    /\ Executed(ev', "deny") =>
           /\ StatusAfter(TargetKey(ev'), Upper(ev'.planarg)) = "denied"
           /\ ev'.dms = {ParseInt(ev'.uidarg)}
    /\ (ev'.op = "broadcast" /\ ev'.text # "") =>
           /\ ev'.reply = "broadcast"
           /\ ev'.dms = {ParseInt(k) : k \in DOMAIN Users}

C7_OperatorOnly ==
    [][(ev'.op \in AdminOps /\ ev'.msg) =>
          IF ADMIN_ID = <<>> \/ <<Digits[ev'.caller + 1]>> = ADMIN_ID
          THEN C7_Effect ELSE C7_Refused]_vars

\* a refused /approve of a caller who is not the configured operator,
\* on a store that holds records
C7_Witness ==
    /\ ev.op = "approve"
    /\ ev.reply = "noaccess"
    /\ ADMIN_ID # <<>>
    /\ DOMAIN Users # {}

-----------------------------------------------------------------------------
(* C8: an /approve or /deny with fewer than two arguments, with a plan     *)
(* that does not name BASIC, PRO or VIP (names are upper-cased first), or  *)
(* with a non-numeric id, and a plan or "I paid" button naming no such     *)
(* plan, is answered with a usage or error reply and changes nothing in    *)
(* the store.                                                              *)

ErrorReplies == {"noaccess", "usage", "badplan", "baduid"}

C8_Rejected ==
    /\ file' = file
    /\ tmpf' = tmpf
    /\ ev'.reply \in ErrorReplies

C8_MalformedRejected ==
    [][/\ (ev'.op \in {"approve", "deny"} /\ ev'.msg /\ ~WellFormed(ev'))
            => C8_Rejected
       /\ (ev'.op \in {"plan", "paid"} /\ ev'.msg /\ Upper(ev'.planarg) \notin Plans)
            => (C8_Rejected /\ ev'.reply = "badplan")]_vars

\* a rejected command of an authorized caller on a store that holds records
C8_Witness ==
    /\ ev.op \in {"approve", "deny"}
    /\ ev.reply \in {"usage", "badplan", "baduid"}
    /\ DOMAIN Users # {}

-----------------------------------------------------------------------------
(* C9: the write of the store is atomic.  At every step of a write, and   *)
(* after a kill of the process or a raised error at any step of it, the    *)
(* file at USERS_PATH holds the complete content it held before or the     *)
(* complete content being written, never a partial or truncated one, and   *)
(* a read at any of these moments sees nothing else.                       *)

C9_Published ==
    file' # file =>
        /\ proc[Bot].pc = "staged"
        /\ file' = Object(Data(proc[Bot]))

C9_AtomicWrite ==
    /\ [](/\ file.st \in {"missing", "object"}
          /\ proc[Reader].seen \in {"none", "missing", "object"})
    /\ [][C9_Published]_vars

\* the process was killed part way through the dump: the staging file is
\* partial, the store still holds its old records, a read has seen them
C9_Witness ==
    /\ conc.crashAt = "dumping"
    /\ tmpf.st = "malformed"
    /\ file = Object(Seed)
    /\ proc[Reader].seen = "object"

-----------------------------------------------------------------------------
(* C10: a completed write publishes the snapshot its call read with the    *)
(* call's own patch laid over it and nothing written since the read, so    *)
(* of two calls for one user that interleave read, read, write, write the  *)
(* update of the first writer is absent from the final record.  No step    *)
(* of a call waits for another call.                                       *)

Present(c, users) ==
    IF c.fn = "status" THEN get_purchase_status(users, c.key, c.plan) = c.status
    ELSE get_user(users, c.key)[c.field] = c.val

\* the step is the os.replace of p publishing what p staged
Publishes(p) ==
    /\ proc[p].pc = "staged"
    /\ proc'[p].pc = "idle"
    /\ tmpf = Object(Data(proc[p]))
    /\ tmpf'.st = "missing"

C10_PurchasesAsRead ==
    \A p \in Procs :
        (proc[p].pc = "idle" /\ proc'[p].pc = "upsert") =>
            LET c == proc'[p].call
                u == get_user(Users, c.key)
            IN \A q \in Plans :
                  proc'[p].purch.ent[q] =
                      IF q = c.plan THEN c.status
                      ELSE IF u.purchases.tag = "dict" THEN u.purchases.ent[q]
                      ELSE "absent"

C10_RecordAsRead ==
    \A p \in Procs :
        Publishes(p) =>
            LET c == proc[p].call
            IN /\ file'.st = "object"
               /\ DOMAIN UsersAfter = DOMAIN proc[p].snap \cup {c.key}
               /\ \A k \in Keys, f \in Fields :
                     get_user(UsersAfter, k)[f] =
                         IF k = c.key /\ f = c.field
                         THEN (IF c.fn = "status" THEN proc[p].purch ELSE c.val)
                         ELSE get_user(proc[p].snap, k)[f]

C10_SnapshotWins == [][C10_PurchasesAsRead /\ C10_RecordAsRead]_vars

\* two calls for one user both published, nothing crashed or overlapped,
\* and the record holds the update of one of them only
C10_Witness ==
    /\ ~conc.overlap
    /\ conc.crashAt = "none"
    /\ \A p \in Procs : proc[p].pc = "idle"
    /\ \E c1, c2 \in conc.applied :
          /\ c1 # c2
          /\ c1.key = c2.key
          /\ Present(c2, Users)
          /\ ~Present(c1, Users)

-----------------------------------------------------------------------------
(* C11 as written: when calls that patch different user ids have both     *)
(* published, with no crash and no two writes overlapping on the staging   *)
(* file, the store holds the patch of each of them.                        *)

C11_BothPatchesPresent ==
    (~conc.overlap /\ conc.crashAt = "none") =>
        \A c1, c2 \in conc.applied :
            c1.key # c2.key => Present(c1, Users) /\ Present(c2, Users)

-----------------------------------------------------------------------------
(* C12 as written: a record the store holds is held by every later state   *)
(* of the store, whatever handler runs and whether or not a store read     *)
(* faults during the run.                                                  *)

C12_RecordsPersist ==
    [][DOMAIN Users \subseteq DOMAIN UsersAfter]_vars

-----------------------------------------------------------------------------
(* C13: a handler's upsert_user sets the keys of its patch in the caller's *)
(* record to the patch's values and persists the result; every other key   *)
(* of that record keeps its value, every other user's record is unchanged, *)
(* and no record is added or removed besides the caller's.                 *)

PatchOps == {"start", "text", "lang", "plan"}

PatchKeys(e) ==
    CASE e.op = "start" -> {"name"}
      [] e.op = "text" -> {"name", "msg"}
      [] e.op = "lang" -> {"lang"}
      [] e.op = "plan" -> {"sel"}
      [] OTHER -> {}

PatchValue(e, f) ==
    CASE f = "lang" -> (IF StripLower(e.text) \in SUPPORTED_LANGS
                        THEN StripLower(e.text) ELSE DEFAULT_LANG)
      [] f = "sel" -> Upper(e.planarg)
      [] OTHER -> TRUE

C13_Frame ==
    (ev'.op \in PatchOps /\ ev'.msg /\ ev'.reply # "badplan") =>
        LET k == Str(ev'.caller)
        IN /\ file'.st = "object"
           /\ DOMAIN UsersAfter = DOMAIN Users \cup {k}
           /\ \A j \in DOMAIN Users \ {k} : UsersAfter[j] = Users[j]
           /\ \A f \in Fields \cup {"kind"} :
                 UsersAfter[k][f] = IF f \in PatchKeys(ev') THEN PatchValue(ev', f)
                                    ELSE get_user(Users, k)[f]

C13_PatchFrame == [][C13_Frame]_vars

\* a language choice on a record that holds a purchase request, beside
\* another user's record
C13_Witness ==
    /\ ev.op = "lang"
    /\ ev.text = "tj"
    /\ DOMAIN Users = Keys
    /\ Users[Str(ev.caller)].lang = "tj"
    /\ Users[Str(ev.caller)].purchases.ent["BASIC"] = "requested"

-----------------------------------------------------------------------------
(* C14: get_user, get_lang, get_purchase_status, user_has_access and       *)
(* get_approved_plan leave the store as it is.  get_user of an id without  *)
(* a record answers the empty record and creates none; get_lang over an    *)
(* absent or unsupported stored lang answers the default and the stored    *)
(* value stays what it was.                                                *)

ReadOps == {"get", "get_lang", "get_status", "has_access", "approved_plan"}

StoredLang(k) == get_user(Users, k).lang

Unsupported(l) == l \notin {"null", "number"} /\ StripLower(l) \notin SUPPORTED_LANGS

C14_Read ==
    ev'.op \in ReadOps =>
        /\ file' = file
        /\ tmpf' = tmpf
        /\ (ev'.op = "get" /\ ev'.uidarg \notin DOMAIN Users) => ev'.reply = "empty"
        /\ (ev'.op = "get_lang" /\ Unsupported(StoredLang(ev'.uidarg))) =>
               ev'.reply = DEFAULT_LANG

C14_ReadsLeaveStore == [][C14_Read]_vars

\* get_lang answered the default over a stored "xx", which is still stored
C14_Witness ==
    /\ ev.op = "get_lang"
    /\ ~ev.io.r1
    /\ ev.reply = DEFAULT_LANG
    /\ StoredLang(ev.uidarg) = "xx"

\* get_user of an id without a record, on a file that does not exist
C14_WitnessNeverSeen ==
    /\ ev.op = "get"
    /\ ev.reply = "empty"
    /\ file = Missing

-----------------------------------------------------------------------------
(* C15: _safe_read_json answers the empty mapping, and answers at all,     *)
(* when the file is missing, empty, malformed or holds JSON that is not an *)
(* object, and when reading it raises; get_user answers the empty record   *)
(* when the value stored under the id is not an object.                    *)

Unusable == {"missing", "empty", "malformed", "nonobject"}

C15_EmptyOnBadFile ==
    /\ ev.op = "read" =>
          /\ ev.reply \in {"empty", "records"}
          /\ (ev.io.r1 \/ file.st \in Unusable) => ev.reply = "empty"
    /\ ev.op = "get" =>
          /\ ev.reply \in {"empty", "record"}
          /\ (/\ file.st = "object"
              /\ ev.uidarg \in DOMAIN file.data
              /\ file.data[ev.uidarg].kind = "junk") => ev.reply = "empty"

\* a read that raised over a file that holds a record
C15_Witness ==
    /\ ev.op = "read"
    /\ ev.io.r1
    /\ ev.reply = "empty"
    /\ file.st = "object"
    /\ file.data # EmptyMap

\* get_user over a stored value that is not an object
C15_WitnessJunk ==
    /\ ev.op = "get"
    /\ ~ev.io.r1
    /\ ev.reply = "empty"
    /\ file.st = "object"
    /\ ev.uidarg \in DOMAIN file.data
    /\ file.data[ev.uidarg].kind = "junk"

-----------------------------------------------------------------------------
(* C16: when the write of a store call fails, the handler that made the    *)
(* call still sends the replies and notifications of a successful run, and *)
(* the file at USERS_PATH holds exactly what it held before the call.      *)

OkReplies(op) ==
    CASE op = "start" -> {"welcome"}
      [] op = "text" -> MenuKeys \cup {"choose_lang", "no_access", "access_active"}
      [] op = "lang" -> {"lang_set_tj", "lang_set_ru"}
      [] op = "plan" -> {"plan_details"}
      [] op = "paid" -> {"request_sent"}
      [] op = "approve" -> {"approved"}
      [] op = "deny" -> {"denied"}
      [] OTHER -> {}

OkDms(e) ==
    CASE e.op \in {"approve", "deny"} -> {{ParseInt(e.uidarg)}}
      [] e.op \in {"start", "plan", "paid"} -> {AdminDms(ADMIN_ID)}
      [] e.op = "lang" -> {{e.caller}}
      [] OTHER -> {{}, AdminDms(ADMIN_ID)}

C16_Step ==
    ev'.io.w > 0 =>
        /\ file' = file
        /\ ev'.reply \in OkReplies(ev'.op)
        /\ ev'.dms \in OkDms(ev')

C16_WriteFailureSwallowed == [][C16_Step]_vars

\* an "I paid" whose dump failed part way: the request was confirmed to the
\* user, the stored status is not requested
C16_Witness ==
    /\ ev.op = "paid"
    /\ ev.io.w = 2
    /\ ev.reply = "request_sent"
    /\ ev.planarg = "PRO"
    /\ file = Object(Both)
    /\ tmpf.st = "malformed"
    /\ Status(Str(ev.caller), "PRO") = "none"

-----------------------------------------------------------------------------
(* C17: when the message to the user of an executed /approve or /deny      *)
(* cannot be delivered, the status of (u, P) is approved, respectively     *)
(* denied, after the handler, and the operator has the confirmation reply. *)

C17_KeptAfterFailedDelivery ==
    \A op \in {"approve", "deny"} :
        (Executed(ev, op) /\ ev.undelivered # {}) =>
            /\ ev.undelivered = {ParseInt(ev.uidarg)}
            /\ ev.dms = {ParseInt(ev.uidarg)}
            /\ Status(TargetKey(ev), Upper(ev.planarg))
                   = (IF op = "approve" THEN "approved" ELSE "denied")
            /\ ev.reply = (IF op = "approve" THEN "approved" ELSE "denied")

\* a deny that could not be delivered, of a plan the user had requested
C17_Witness ==
    /\ Executed(ev, "deny")
    /\ ev.undelivered = {1}
    /\ scen[1] = 2
    /\ Status(<<"1">>, "BASIC") = "denied"

-----------------------------------------------------------------------------
(* C18: an authorized /broadcast with a text, over a store of N records,   *)
(* attempts a delivery to the user of every record, also when deliveries   *)
(* to others fail, and ends with its report: sent + failed = N, and failed *)
(* is the number of deliveries that failed.                                *)

C18_BroadcastCounts ==
    (ev.op = "broadcast" /\ ev.msg /\ Authorized(ev.caller) /\ ev.text # "") =>
        LET N == Cardinality(DOMAIN Users)
        IN /\ ev.reply = "broadcast"
           /\ ev.dms = {ParseInt(k) : k \in DOMAIN Users}
           /\ Cardinality(ev.dms) = N
           /\ ev.undelivered \subseteq ev.dms
           /\ ev.failed = Cardinality(ev.undelivered)
           /\ ev.sent + ev.failed = N

\* two records, the delivery to user 1 failed and the one to user 2 was made
C18_Witness ==
    /\ ev.op = "broadcast"
    /\ ev.reply = "broadcast"
    /\ DOMAIN Users = Keys
    /\ ev.undelivered = {1}
    /\ ev.dms = {1, 2}
    /\ ev.sent = 1
    /\ ev.failed = 1

-----------------------------------------------------------------------------
(* C19: in every state the handlers can bring the store to, get_lang of    *)
(* every user is a supported language; and after a language choice whose   *)
(* value is not supported, the stored lang of the user is the default      *)
(* value itself, not an absent key, and get_lang answers the default.      *)

C19_SupportedLocale ==
    /\ \A k \in Keys : get_lang(Users, k) \in SUPPORTED_LANGS
    /\ (ev.op = "lang" /\ StripLower(ev.text) \notin SUPPORTED_LANGS) =>
           LET k == Str(ev.caller)
           IN /\ k \in DOMAIN Users
              /\ Users[k].lang = DEFAULT_LANG
              /\ get_lang(Users, k) = DEFAULT_LANG

\* the choice of "xx" as the second event of a user: the stored lang is "ru"
C19_Witness ==
    /\ ev.op = "lang"
    /\ ev.text = "xx"
    /\ nev = 2
    /\ ev.reply = "lang_set_ru"
    /\ Users[Str(ev.caller)].lang = "ru"
    /\ DOMAIN Users = {Str(ev.caller)}

-----------------------------------------------------------------------------
(* C20: whatever the status of (u, P) was, none, requested, approved or    *)
(* denied, an "I paid" of u for a plan P makes it requested, an executed   *)
(* /approve of (u, P) makes it approved and an executed /deny makes it     *)
(* denied, each with its success reply.                                    *)

Statuses == {"none", "requested", "approved", "denied"}

C20_Forced(prior) ==
    /\ \A p \in Plans :
          (Paid(ev', p) /\ Status(Str(ev'.caller), p) = prior) =>
              /\ StatusAfter(Str(ev'.caller), p) = "requested"
              /\ ev'.reply = "request_sent"
    /\ (Executed(ev', "approve")
            /\ Status(TargetKey(ev'), Upper(ev'.planarg)) = prior) =>
           /\ StatusAfter(TargetKey(ev'), Upper(ev'.planarg)) = "approved"
           /\ ev'.reply = "approved"
    /\ (Executed(ev', "deny")
            /\ Status(TargetKey(ev'), Upper(ev'.planarg)) = prior) =>
           /\ StatusAfter(TargetKey(ev'), Upper(ev'.planarg)) = "denied"
           /\ ev'.reply = "denied"

C20_ForceSets == [][\A prior \in Statuses : C20_Forced(prior)]_vars

\* an "I paid" for BASIC over the status denied: third event of the run
\* request, deny, request
C20_Witness ==
    /\ nev = 3
    /\ Paid(ev, "BASIC")
    /\ scen[ev.caller] = 3
    /\ ev.reply = "request_sent"
    /\ Status(Str(ev.caller), "BASIC") = "requested"

-----------------------------------------------------------------------------
(* C21: an "I paid", an /approve or a /deny applied a second time in a row *)
(* to the same user and plan leaves every purchase status, has_access and  *)
(* get_approved_plan of every user as they were after the first.           *)

C21_SecondApplication ==
    ev'.again =>
        \A k \in Keys :
            /\ \A p \in Plans : StatusAfter(k, p) = Status(k, p)
            /\ user_has_access(UsersAfter, k) = user_has_access(Users, k)
            /\ get_approved_plan(UsersAfter, k) = get_approved_plan(Users, k)

C21_Idempotent == [][C21_SecondApplication]_vars

\* the second of two /approve of the same user and plan
C21_Witness ==
    /\ ev.again
    /\ Executed(ev, "approve")
    /\ get_approved_plan(Users, TargetKey(ev)) = Upper(ev.planarg)

-----------------------------------------------------------------------------
(* C22: an "I paid", an executed /approve or an executed /deny on (u, P)   *)
(* changes the entry of plan P of user u and nothing else: the entries of  *)
(* the other plans of u, the other keys of u's record and the records of   *)
(* the other users are what they were.                                     *)

IsTrigger(e) ==
    \/ \E p \in Plans : Paid(e, p)
    \/ Executed(e, "approve")
    \/ Executed(e, "deny")

TriggerKey(e) == IF e.op = "paid" THEN Str(e.caller) ELSE TargetKey(e)

TriggerStatus(e) ==
    CASE e.op = "paid" -> "requested"
      [] e.op = "approve" -> "approved"
      [] OTHER -> "denied"

EntriesOf(users, k) ==
    IF get_user(users, k).purchases.tag = "dict"
    THEN get_user(users, k).purchases.ent ELSE NoEntries

C22_Frame ==
    IsTrigger(ev') =>
        LET k == TriggerKey(ev')
            P == Upper(ev'.planarg)
        IN /\ DOMAIN UsersAfter = DOMAIN Users \cup {k}
           /\ \A j \in DOMAIN Users \ {k} : UsersAfter[j] = Users[j]
           /\ \A f \in (Fields \ {"purchases"}) \cup {"kind"} :
                 UsersAfter[k][f] = get_user(Users, k)[f]
           /\ UsersAfter[k].purchases.tag = "dict"
           /\ \A q \in Plans :
                 UsersAfter[k].purchases.ent[q] =
                     IF q = P THEN TriggerStatus(ev') ELSE EntriesOf(Users, k)[q]

C22_PlanEntriesIndependent == [][C22_Frame]_vars

\* an "I paid" for PRO by a user whose BASIC is approved, beside the record
\* of another user
C22_Witness ==
    /\ Paid(ev, "PRO")
    /\ Status(Str(ev.caller), "PRO") = "requested"
    /\ Status(Str(ev.caller), "BASIC") = "approved"
    /\ DOMAIN Users = Keys
    /\ \E j \in Keys \ {Str(ev.caller)} : Users[j].name

-----------------------------------------------------------------------------
(* C23: whatever the interleaving of the store calls of an operator's and  *)
(* a user's action on the same record, every record the store gives back   *)
(* is an object, its purchases is absent or a mapping over the plans, and  *)
(* every entry of it is absent (status none) or holds one of the statuses  *)
(* requested, approved, denied.                                            *)

RecordOK(r) ==
    /\ r.kind = "dict"
    /\ r.purchases.tag \in {"absent", "dict"}
    /\ DOMAIN r.purchases.ent = Plans
    /\ \A p \in Plans :
          r.purchases.ent[p] \in {"absent", "requested", "approved", "denied"}
    /\ r.purchases.tag = "absent" => r.purchases.ent = NoEntries

-----------------------------------------------------------------------------
(* C24: for every user and whatever the store holds, user_has_access is    *)
(* true exactly when get_approved_plan names a plan; an answer of either   *)
(* accessor agrees with the other accessor on the same store.              *)

C24_DerivationsAgree ==
    /\ \A k \in Keys :
          user_has_access(Users, k) <=> get_approved_plan(Users, k) # "none"
    /\ ev.op = "has_access" =>
          (ev.reply = "true" <=> get_approved_plan(Users, ev.uidarg) \in Plans)
    /\ ev.op = "approved_plan" =>
          (ev.reply \in Plans <=> user_has_access(Users, ev.uidarg))

\* access answered over a record whose only approved entry is the last one
\* get_approved_plan looks at, beside entries that are not objects
C24_Witness ==
    /\ ev.op = "has_access"
    /\ ev.reply = "true"
    /\ get_approved_plan(Users, ev.uidarg) = "BASIC"
    /\ Users[ev.uidarg].purchases.ent["VIP"] = "junk"
    /\ Users[ev.uidarg].purchases.ent["PRO"] = "denied"

-----------------------------------------------------------------------------
(* C25: on_text answers a text that is no language button and no menu      *)
(* label of the user's language with the access-active content exactly     *)
(* when the stored record of the user holds an approved entry at that      *)
(* time, and with the no-access message otherwise; so a user whose         *)
(* approved plan was denied or requested again since is refused.           *)

Gated(e) ==
    /\ e.op = "text"
    /\ e.msg
    /\ e.reply \notin MenuKeys \cup {"choose_lang"}

C25_ContentGated ==
    /\ (ev.op = "text" /\ ev.msg /\ ev.text = "other") => Gated(ev)
    /\ Gated(ev) =>
          ev.reply = IF StoredApproved(Str(ev.caller)) # {}
                     THEN "access_active" ELSE "no_access"

\* a text of a user whose approval was followed by a new request
C25_Witness ==
    /\ Gated(ev)
    /\ ev.text = "other"
    /\ ev.reply = "no_access"
    /\ Str(ev.caller) \in approvals
    /\ \E p \in Plans : Status(Str(ev.caller), p) = "requested"

\* a text of a user with an approved plan
C25_WitnessActive ==
    /\ Gated(ev)
    /\ ev.reply = "access_active"

-----------------------------------------------------------------------------
(* C26: the choice of a plan (callback plan:P) stores the selected plan in *)
(* the caller's record and leaves every purchases mapping, and so every    *)
(* status, user_has_access and get_approved_plan, as they were; a status   *)
(* becomes requested only by the "I paid" callback of that user and plan.  *)

C26_Selection ==
    (ev'.op = "plan" /\ ev'.msg) =>
        /\ ev'.reply = "plan_details" =>
              UsersAfter[Str(ev'.caller)].sel = Upper(ev'.planarg)
        /\ \A k \in Keys :
              /\ get_user(UsersAfter, k).purchases = get_user(Users, k).purchases
              /\ \A p \in Plans : StatusAfter(k, p) = Status(k, p)
              /\ user_has_access(UsersAfter, k) = user_has_access(Users, k)
              /\ get_approved_plan(UsersAfter, k) = get_approved_plan(Users, k)

C26_RequestOnlyByPaid ==
    \A k \in Keys, p \in Plans :
        (StatusAfter(k, p) = "requested" /\ Status(k, p) # "requested") =>
            Paid(ev', p) /\ Str(ev'.caller) = k

C26_SelectionLeavesPurchases == [][C26_Selection /\ C26_RequestOnlyByPaid]_vars

\* the choice of PRO by a user whose record holds a purchase entry
C26_Witness ==
    /\ ev.op = "plan"
    /\ ev.reply = "plan_details"
    /\ Users[Str(ev.caller)].sel = "PRO"
    /\ Status(Str(ev.caller), "PRO") = "none"
    /\ \E p \in Plans : Status(Str(ev.caller), p) = "approved"

=============================================================================
